---- MODULE Spec2Model ----
(***************************************************************************)
(* Scanly: the scan loop, the per-file pipeline, the state store and the   *)
(* link manager.                                                           *)
(*                                                                         *)
(* Spec       models src/src/win_scanly (processor.py, scanner.py,         *)
(*            symlink.py): process_once / run_forever / process_file /     *)
(*            save_state / load_state / create_symlink.                    *)
(* SpecLegacy models src/src/scanly/processor.py (identical to             *)
(*            src/src/processor.py): run_forever / process_once /          *)
(*            _symlink.                                                    *)
(*                                                                         *)
(* The file system is part of the state.  Two source files are releases    *)
(* of titles whose destination, when a candidate is accepted, is the       *)
(* canonical name of the accepted media type; slot 0 of a canonical name   *)
(* is "Name.ext", slot n > 0 is "Name (n).ext".                            *)
(***************************************************************************)
EXTENDS Integers, FiniteSets, Sequences, TLC

\* ------------------------------------------------------------------ bounds
MaxMtime == 2
MaxSlot == 2
MaxTokens == 3
MaxTitle == 3
MaxFallbacks == 2

\* ------------------------------------------------------- program constants
DIRECT_ACCEPT == 70
THRESHOLD_STRICT == 90
THRESHOLD_LOOSE == 80
MaxRatio == 100        \* fuzz.token_sort_ratio returns a value in [0, 100]
MIN_SIZE_BYTES == 104857600
MIN_DURATION_SECONDS == 900

\* ------------------------------------------------------------- the universe
Files == {"f1", "f2"}
Names == {"movie", "show"}
Slots == 0..MaxSlot
Mtimes == 1..MaxMtime

\* A directory entry of the destination tree.
Empty == [kind |-> "none", src |-> "none"]
Foreign == [kind |-> "file", src |-> "other"]
Link(k, f) == [kind |-> k, src |-> f]
Entries == {Empty, Foreign} \cup {Link(k, f) : k \in {"symlink", "junction"}, f \in Files}

\* A file on disk holding a JSON object: val[f] = 0 when key f is not (yet)
\* in the text, complete = the text is a whole JSON document.
NoText == [f \in Files |-> 0]
NoFile == [exists |-> FALSE, val |-> NoText, complete |-> FALSE]

\* What the providers answer for a file: the local cache's best score
\* (-1 = no result) and the remote movie / show results with the verdict
\* inputs evaluate_match derives from them.
NoRes == [present |-> FALSE, base |-> 0, year |-> FALSE, sxx |-> FALSE, folder |-> FALSE]
Res(b, y) == [present |-> TRUE, base |-> b, year |-> y, sxx |-> FALSE, folder |-> FALSE]
PImdb == [imdb |-> 75, imdbType |-> "movie", movie |-> NoRes, show |-> NoRes]
PShow == [imdb |-> -1, imdbType |-> "movie", movie |-> Res(85, FALSE), show |-> Res(95, FALSE)]
PNone == [imdb |-> 60, imdbType |-> "movie", movie |-> Res(85, FALSE), show |-> NoRes]
Profiles == {PImdb, PShow, PNone}

\* Conditions of the environment that make a step of the pipeline fail: the
\* link step for every file (no privilege for symbolic links, no mechanism
\* works, the destination directory cannot be made), or one step for the
\* file f1.
\* File stems, the names of the sidecars; the unmatched root before the
\* first run.
Stems == {"a", "b"}
NoSidecar == [file |-> "none"]
NoSidecars == [n \in Stems |-> NoSidecar]
DistinctStems == [f \in Files |-> IF f = "f1" THEN "a" ELSE "b"]

\* ai_parser module globals after import with AI_ENABLED unset or "true".
AiEnabled == [use |-> TRUE, reason |-> "none"]

\* No library function has been called on its own.
NoCall == [fn |-> "none"]

\* What the legacy analyse_filename makes of a file name.
Candidates == {"movie", "show", "none"}

NoFault == [kind |-> "none", file |-> "none"]
LinkFaults == {[kind |-> k, file |-> "none"] : k \in {"no_symlink", "link_fail", "link_raise"}}
FileFaults == {[kind |-> k, file |-> f] : k \in {"enum_raise", "scan_error", "vanish", "pipe_raise"}, f \in {"f1"}}
Faults == {NoFault} \cup LinkFaults \cup FileFaults

NoLast == [file |-> "none", outcome |-> "none", mtime |-> 0, unchanged |-> FALSE, io |-> {}, kept |-> TRUE]

VARIABLES
    pc,           \* where the process is: "stopped" | "failed" | "interrupted" | "crashed" (no process), "scan", "file", "save_open", "save_write", "save_replace", "sleep"; legacy: "l_scan", "l_save"
    mode,         \* "once" | "daemon"; legacy: "legacy" | "stopping"
    dryRun,       \* dry_run argument of the running pass
    todo,         \* files the enumeration of this pass has not reached yet
    cur,          \* the entry the enumeration yielded last
    state,        \* ScanState in memory: file -> recorded mtime, 0 = no entry
    stateFile,    \* the state file on disk
    tempFile,     \* the ".tmp" sibling of the state file
    fs,           \* destination tree: canonical name -> slot -> entry
    sidecars,     \* unmatched root: sidecar name (a file stem) -> the document it holds
    stem,         \* path.stem of each source file
    mtime,        \* current modification time of each source file
    answer,       \* provider answers for each source file
    fault,        \* failure condition of the environment
    junctionStat, \* platform: does stat() succeed on a junction made for a file
    last,         \* the last file handled in the running pass and what happened
    pend,         \* mtime at which the running pass marked a file seen after classifying it unsupported, unmatched or linked (0: not)
    seen,         \* the same for the last pass that persisted its state
    candidate,    \* legacy: the media type analyse_filename derives from each file name
    call,         \* the last call of a library function made on its own: its name, arguments and result
    ai,           \* ai_parser module globals: USE_AI and _AI_DISABLED_REASON
    aiMet,        \* an ai_parse_filename call has ended on a refused connection or an HTTP error
    quiet         \* "normal" | "dry": a pass of that kind has completed and the environment is as it was during that pass; "no" otherwise

vars == <<pc, mode, dryRun, todo, cur, state, stateFile, tempFile, fs, sidecars, stem,
          mtime, answer, fault, junctionStat, candidate, call, ai, aiMet, last, pend, seen, quiet>>

envVars == <<mtime, answer, fault, junctionStat, candidate, stem>>
libVars == <<call, ai, aiMet>>
ghostVars == <<last, pend, seen, quiet>>

\* ------------------------------------------------------------- state store

\* A load_state that forgets the persisted mapping.
load_state_forgets(file) ==
    IF ~file.exists THEN NoText
    ELSE IF ~file.complete THEN NoText
    ELSE NoText

\* win_scanly/processor.py load_state: a missing file or a text json.load
\* rejects gives {}; otherwise the numeric entries of the document.
load_state(file) ==
    IF ~file.exists THEN NoText
    ELSE IF ~file.complete THEN NoText
    ELSE file.val

\* ------------------------------------------------------------ link manager

\* Path.exists() on a destination entry: it follows the link; the source
\* files of the model exist, so a symbolic link resolves.  Whether stat()
\* succeeds on a junction whose target is a file depends on the platform.
Exists(e, js) == e.kind \in {"file", "symlink"} \/ (e.kind = "junction" /\ js)

\* win_scanly/symlink.py _resolve_collision, the while loop from index i.
RECURSIVE FirstFree(_, _, _)
FirstFree(dir, js, i) ==
    IF i > MaxSlot THEN i
    ELSE IF ~Exists(dir[i], js) THEN i
    ELSE FirstFree(dir, js, i + 1)

\* A _resolve_collision whose index starts at 2.
resolve_collision_from_two(dir, js) ==
    IF ~Exists(dir[0], js) THEN 0 ELSE FirstFree(dir, js, 2)

\* win_scanly/symlink.py _resolve_collision
resolve_collision(dir, js) ==
    IF ~Exists(dir[0], js) THEN 0 ELSE FirstFree(dir, js, 1)

\* A create_symlink that makes the junction where the symbolic link is due.
create_symlink_junction_first(dir, src, lf, js) ==
    IF lf = "link_raise"
    THEN [dir |-> dir, ok |-> FALSE, raised |-> TRUE, slot |-> -1, tried |-> {}]
    ELSE
      LET already == Exists(dir[0], js) /\ dir[0].kind = "symlink" /\ dir[0].src = src
          dest == IF Exists(dir[0], js) /\ ~already THEN resolve_collision(dir, js) ELSE 0
          free == dest <= MaxSlot /\ dir[dest] = Empty
      IN  IF already
          THEN [dir |-> dir, ok |-> TRUE, raised |-> FALSE, slot |-> -1, tried |-> {}]
          ELSE IF lf = "none" /\ free
          THEN [dir |-> [dir EXCEPT ![dest] = Link("junction", src)], ok |-> TRUE, raised |-> FALSE,
                slot |-> dest, tried |-> {"junction"}]
          ELSE IF lf = "no_symlink" /\ free
          THEN [dir |-> [dir EXCEPT ![dest] = Link("junction", src)], ok |-> TRUE, raised |-> FALSE,
                slot |-> dest, tried |-> {"symlink", "junction"}]
          ELSE [dir |-> dir, ok |-> FALSE, raised |-> FALSE, slot |-> -1, tried |-> {"symlink", "junction"}]

\* win_scanly/symlink.py create_symlink on the directory of one canonical
\* name.  lf is the failure condition of the environment, js the platform's
\* answer to stat() on a junction.  The result carries the directory after
\* the call, the returned boolean, whether the call raised, the slot a link
\* was created at (-1: none) and the mechanisms that were attempted:
\* os.symlink, then "mklink /J" once os.symlink has raised OSError.
create_symlink(dir, src, lf, js) ==
    IF lf = "link_raise"
    THEN [dir |-> dir, ok |-> FALSE, raised |-> TRUE, slot |-> -1, tried |-> {}]
    ELSE
      LET already == Exists(dir[0], js) /\ dir[0].kind = "symlink" /\ dir[0].src = src
          dest == IF Exists(dir[0], js) /\ ~already THEN resolve_collision(dir, js) ELSE 0
          free == dest <= MaxSlot /\ dir[dest] = Empty
      IN  IF already
          THEN [dir |-> dir, ok |-> TRUE, raised |-> FALSE, slot |-> -1, tried |-> {}]
          ELSE IF lf = "none" /\ free
          THEN [dir |-> [dir EXCEPT ![dest] = Link("symlink", src)], ok |-> TRUE, raised |-> FALSE,
                slot |-> dest, tried |-> {"symlink"}]
          ELSE IF lf = "no_symlink" /\ free
          THEN [dir |-> [dir EXCEPT ![dest] = Link("junction", src)], ok |-> TRUE, raised |-> FALSE,
                slot |-> dest, tried |-> {"symlink", "junction"}]
          ELSE [dir |-> dir, ok |-> FALSE, raised |-> FALSE, slot |-> -1, tried |-> {"symlink", "junction"}]

\* The slot create_symlink would write to stays inside the modelled directory.
InRange(dir, js) == resolve_collision(dir, js) <= MaxSlot

\* -------------------------------------------------------- similarity scorer

Min(a, b) == IF a < b THEN a ELSE b

\* win_scanly/similarity.py similarity_score, from the token-sort ratio.
similarity_score(base, year_match, sxxexx_match, folder_context_match) ==
    Min(100, base + (IF year_match THEN 10 ELSE 0)
                  + (IF sxxexx_match THEN 10 ELSE 0)
                  + (IF folder_context_match THEN 5 ELSE 0))

\* win_scanly/similarity.py evaluate_match: year_match, from the two years
\* (0: None; Python takes both as false).
year_match_of(query_year, candidate_year) ==
    query_year # 0 /\ candidate_year # 0 /\ query_year = candidate_year

\* An evaluate_match whose loose rule does not ask for the year match.
evaluate_match_any_year(base, year_match, sxx_match, folder_context_match) ==
    LET score == similarity_score(base, year_match, sxx_match, folder_context_match)
    IN  IF score >= THRESHOLD_STRICT
        THEN [score |-> score, accepted |-> TRUE, warn |-> FALSE, reason |-> "strict_accept"]
        ELSE IF score >= THRESHOLD_LOOSE
        THEN [score |-> score, accepted |-> TRUE, warn |-> TRUE, reason |-> "loose_accept_year_match"]
        ELSE [score |-> score, accepted |-> FALSE, warn |-> FALSE, reason |-> "unmatched"]

\* win_scanly/similarity.py evaluate_match
evaluate_match(base, year_match, sxx_match, folder_context_match) ==
    LET score == similarity_score(base, year_match, sxx_match, folder_context_match)
    IN  IF score >= THRESHOLD_STRICT
        THEN [score |-> score, accepted |-> TRUE, warn |-> FALSE, reason |-> "strict_accept"]
        ELSE IF score >= THRESHOLD_LOOSE /\ year_match
        THEN [score |-> score, accepted |-> TRUE, warn |-> TRUE, reason |-> "loose_accept_year_match"]
        ELSE [score |-> score, accepted |-> FALSE, warn |-> FALSE, reason |-> "unmatched"]

NoSim == [score |-> -1, accepted |-> FALSE, warn |-> FALSE, reason |-> "none"]

\* A process_file that asks the remote provider for every file.
lookups_made_both(imdb_match) == <<"local", "remote">>

\* win_scanly/processor.py process_file: the providers asked, in order.
\* The local cache is searched first; tmdb.search_movie and
\* tmdb.search_show are called under "if not imdb_match".
lookups_made(imdb_match) ==
    IF imdb_match THEN <<"local">> ELSE <<"local", "remote">>

\* win_scanly/processor.py process_file, candidate selection: the local
\* cache result is taken directly at a score of 70 or more; otherwise the
\* remote movie and show results are compared by their verdict scores.
Decide(a) ==
    LET imdb_match == a.imdb >= DIRECT_ACCEPT
        movie == a.movie.present
        show == a.show.present
        sim_movie == evaluate_match(a.movie.base, a.movie.year, a.movie.sxx, FALSE)
        sim_show == evaluate_match(a.show.base, a.show.year, a.show.sxx, a.show.folder)
    IN  IF imdb_match
        THEN [best |-> "imdb", type |-> a.imdbType, remote |-> FALSE, queries |-> lookups_made(imdb_match),
              sim |-> [score |-> a.imdb, accepted |-> TRUE, warn |-> a.imdb < 80, reason |-> "imdb_direct"]]
        ELSE IF movie /\ show
        THEN IF sim_movie.score >= sim_show.score
             THEN [best |-> "movie", type |-> "movie", remote |-> TRUE, queries |-> lookups_made(imdb_match), sim |-> sim_movie]
             ELSE [best |-> "show", type |-> "show", remote |-> TRUE, queries |-> lookups_made(imdb_match), sim |-> sim_show]
        ELSE IF movie
        THEN [best |-> "movie", type |-> "movie", remote |-> TRUE, queries |-> lookups_made(imdb_match), sim |-> sim_movie]
        ELSE IF show
        THEN [best |-> "show", type |-> "show", remote |-> TRUE, queries |-> lookups_made(imdb_match), sim |-> sim_show]
        ELSE [best |-> "none", type |-> "none", remote |-> TRUE, queries |-> lookups_made(imdb_match), sim |-> NoSim]

Unmatched(d) == d.best = "none" \/ ~d.sim.accepted

\* ------------------------------------------------------------------- Init

EmptyDir == [s \in Slots |-> Empty]
OccupiedDir == [s \in Slots |-> IF s = 0 THEN Foreign ELSE Empty]

\* The environment: what the providers answer, which step fails, what the
\* destination tree holds before the first run.
InitEnv ==
    /\ mtime = [f \in Files |-> 1]
    /\ answer \in {a \in [Files -> Profiles] : a["f1"] = PImdb}
    /\ fault \in Faults
    /\ junctionStat \in BOOLEAN
    /\ (fault.kind # "no_symlink" => junctionStat)
    /\ candidate = [f \in Files |-> "movie"]
    /\ stem = DistinctStems
    /\ fs \in {[n \in Names |-> EmptyDir],
               [n \in Names |-> IF n = "movie" THEN OccupiedDir ELSE EmptyDir]}

Init ==
    /\ InitEnv
    /\ pc = "stopped"
    /\ mode = "once"
    /\ dryRun = FALSE
    /\ todo = {}
    /\ cur = "none"
    /\ state = NoText
    /\ stateFile = NoFile
    /\ tempFile = NoFile
    /\ sidecars = NoSidecars
    /\ last = NoLast
    /\ pend = NoText
    /\ seen = NoText
    /\ quiet = "no"
    /\ call = NoCall
    /\ ai = AiEnabled
    /\ aiMet = FALSE

\* ------------------------------------------------- win_scanly: the scan loop

\* process_once up to the for loop: the clients are built, the state is
\* loaded from the state file, the enumeration starts.
BeginPass(m, d) ==
    /\ mode' = m
    /\ dryRun' = d
    /\ state' = load_state(stateFile)
    /\ todo' = Files
    /\ cur' = "none"
    /\ pc' = "scan"
    /\ last' = NoLast
    /\ pend' = NoText
    /\ UNCHANGED <<stateFile, tempFile, fs, sidecars, envVars, libVars, seen, quiet>>

\* main(): --once (with or without --dry-run) or no mode runs process_once;
\* --daemon runs run_forever, whose passes are never dry runs.
Launch ==
    /\ pc \in {"stopped", "failed"}
    /\ \E m \in {"once", "daemon"}, d \in BOOLEAN :
          /\ (m = "daemon" => ~d)
          /\ BeginPass(m, d)

\* run_forever: time.sleep(interval) returns and the loop calls process_once.
Wake ==
    /\ pc = "sleep"
    /\ BeginPass("daemon", FALSE)

\* scanner.py iter_media_files, one path of root.rglob("*"): is_file() and
\* the extension test run outside the try block, the size stat and the
\* duration probe inside it; a path that passes is yielded to process_once.
\* An exception of is_file() leaves the generator and process_once, whose
\* for statement is outside its try block: save_state is skipped, main()
\* lets the exception reach the caller, run_forever logs it and sleeps.
ScanFile(f) ==
    /\ pc = "scan"
    /\ f \in todo
    /\ IF fault = [kind |-> "enum_raise", file |-> f]
       THEN /\ pc' = IF mode = "daemon" THEN "sleep" ELSE "failed"
            /\ last' = [file |-> f, outcome |-> "escaped", mtime |-> 0,
                        unchanged |-> state[f] = mtime[f], io |-> {"stat"}, kept |-> TRUE]
            /\ todo' = {}
            /\ UNCHANGED cur
       ELSE IF fault = [kind |-> "scan_error", file |-> f]
       THEN /\ todo' = todo \ {f}
            /\ last' = [file |-> f, outcome |-> "scan_error", mtime |-> 0,
                        unchanged |-> state[f] = mtime[f], io |-> {"stat"}, kept |-> TRUE]
            /\ UNCHANGED <<pc, cur>>
       ELSE /\ todo' = todo \ {f}
            /\ cur' = f
            /\ pc' = "file"
            /\ last' = [file |-> f, outcome |-> "yielded", mtime |-> 0,
                        unchanged |-> state[f] = mtime[f], io |-> {"stat", "probe"}, kept |-> TRUE]
    /\ UNCHANGED <<mode, dryRun, state, stateFile, tempFile, fs, sidecars, envVars, libVars,
                   pend, seen, quiet>>

\* process_file, the unmatched branch: the document is written to
\* "{unmatched_dir}/{path.stem}.json", opened with mode "w".
write_sidecar(sc, name, f, a, d) ==
    [sc EXCEPT ![name] = [file |-> f, imdb |-> a.imdb, movie |-> a.movie, show |-> a.show,
                          similarity |-> d.sim]]

\* A process_file that never records the modification time.
mark_seen_never(st, f, m) == st

\* process_file: state[key] = mtime
mark_seen(st, f, m) == [st EXCEPT ![f] = m]

\* The result of process_file on entry f: the state mapping, the
\* destination tree and the sidecars after the call, what happened, and the
\* I/O the call performed.
process_file(f, st, tree, sc, dry, flt, js) ==
    LET m == mtime[f]
        d == Decide(answer[f])
        same == [state |-> st, fs |-> tree, sidecars |-> sc]
        marked == [state |-> mark_seen(st, f, m), fs |-> tree, sidecars |-> sc]
        lf == IF flt \in LinkFaults THEN flt.kind ELSE "none"
        lk == create_symlink(tree[d.type], f, lf, js)
        lookups == {"enrich", "lookup"}
    IN  IF flt = [kind |-> "vanish", file |-> f]
        THEN same @@ [outcome |-> "vanished", io |-> {"stat"}]
        ELSE IF st[f] = m
        THEN same @@ [outcome |-> "skipped", io |-> {"stat"}]
        ELSE IF flt = [kind |-> "pipe_raise", file |-> f]
        THEN same @@ [outcome |-> "raised", io |-> {"stat"} \cup lookups]
        ELSE IF Unmatched(d)
        THEN [state |-> mark_seen(st, f, m), fs |-> tree,
              sidecars |-> write_sidecar(sc, stem[f], f, answer[f], d),
              outcome |-> "unmatched", io |-> {"stat", "sidecar"} \cup lookups]
        ELSE IF dry
        THEN marked @@ [outcome |-> "dryrun", io |-> {"stat"} \cup lookups]
        ELSE IF lk.raised
        THEN same @@ [outcome |-> "linkraise", io |-> {"stat", "link"} \cup lookups]
        ELSE [state |-> mark_seen(st, f, m),
              fs |-> [tree EXCEPT ![d.type] = lk.dir],
              sidecars |-> sc,
              outcome |-> IF lk.ok THEN "linked" ELSE "linkfail",
              io |-> {"stat", "link"} \cup lookups \cup lk.tried]

\* The classifications after which the state entry marks the file as seen.
Settled == {"unsupported", "unmatched", "linked"}

\* process_once, the body of the for loop: process_file on the yielded
\* entry inside try / except Exception.
ProcessFile ==
    /\ pc = "file"
    /\ LET f == cur
           r == process_file(f, state, fs, sidecars, dryRun, fault, junctionStat)
       IN  /\ \A n \in Names : InRange(fs[n], junctionStat)
           /\ state' = r.state
           /\ fs' = r.fs
           /\ sidecars' = r.sidecars
           /\ last' = [file |-> f, outcome |-> r.outcome,
                       mtime |-> IF r.outcome = "vanished" THEN 0 ELSE mtime[f],
                       unchanged |-> state[f] = mtime[f],
                       io |-> last.io \cup r.io, kept |-> r.state[f] = state[f]]
           /\ pend' = IF r.outcome \in Settled THEN [pend EXCEPT ![f] = mtime[f]] ELSE pend
    /\ pc' = "scan"
    /\ UNCHANGED <<mode, dryRun, todo, cur, stateFile, tempFile, envVars, libVars, seen, quiet>>

\* The enumeration is exhausted: process_once calls save_state.
ScanDone ==
    /\ pc = "scan"
    /\ todo = {}
    /\ pc' = "save_open"
    /\ UNCHANGED <<mode, dryRun, todo, cur, state, stateFile, tempFile, fs, sidecars, envVars, libVars,
                   ghostVars>>

\* ------------------------------------------------- win_scanly: save_state

\* A save_state that opens the state file itself for writing.
SaveOpen_in_place ==
    /\ pc = "save_open"
    /\ stateFile' = [exists |-> TRUE, val |-> NoText, complete |-> FALSE]
    /\ tempFile' = stateFile'
    /\ pc' = "save_write"
    /\ UNCHANGED <<mode, dryRun, todo, cur, state, fs, sidecars, envVars, libVars, ghostVars>>

\* save_state: temp.open("w") creates or truncates the temporary file.
SaveOpen ==
    /\ pc = "save_open"
    /\ tempFile' = [exists |-> TRUE, val |-> NoText, complete |-> FALSE]
    /\ pc' = "save_write"
    /\ UNCHANGED <<mode, dryRun, todo, cur, state, stateFile, fs, sidecars, envVars, libVars, ghostVars>>

\* The temporary file once json.dump has written the whole document and the
\* with block has closed it; until then it holds a proper prefix of it.
write_chunk(file, st) ==
    [file EXCEPT !.val = st, !.complete = TRUE]

\* save_state: json.dump(state, handle) and the end of the with block.
SaveWrite ==
    /\ pc = "save_write"
    /\ tempFile' = write_chunk(tempFile, state)
    /\ pc' = "save_replace"
    /\ UNCHANGED <<mode, dryRun, todo, cur, state, stateFile, fs, sidecars, envVars, libVars, ghostVars>>

\* The two files after temp.replace(path): the rename is atomic.
replace(temp, target) == [target |-> temp, temp |-> NoFile]

\* save_state: temp.replace(path); process_once returns.  main() returns
\* after the pass, run_forever sleeps.
SaveReplace ==
    /\ pc = "save_replace"
    /\ stateFile' = replace(tempFile, stateFile).target
    /\ tempFile' = replace(tempFile, stateFile).temp
    /\ pc' = IF mode = "daemon" THEN "sleep" ELSE "stopped"
    /\ seen' = [f \in Files |-> IF pend[f] # 0 THEN pend[f] ELSE seen[f]]
    /\ last' = NoLast
    /\ pend' = NoText
    /\ quiet' = IF dryRun THEN "dry" ELSE "normal"
    /\ UNCHANGED <<mode, dryRun, todo, cur, state, fs, sidecars, envVars, libVars>>

\* ------------------------------------------------------------ environment

\* The process is killed (kill -9, power loss): memory is lost, the files
\* stay as they are.
Crash ==
    /\ pc \notin {"stopped", "failed", "interrupted", "crashed"}
    /\ pc' = "crashed"
    /\ state' = NoText
    /\ todo' = {}
    /\ cur' = "none"
    /\ last' = NoLast
    /\ pend' = NoText
    /\ UNCHANGED <<mode, dryRun, stateFile, tempFile, fs, sidecars, envVars, libVars, seen, quiet>>

\* run_forever receives KeyboardInterrupt: "except Exception" does not catch
\* it, neither in process_once nor in run_forever nor in save_state, so it
\* unwinds the process from wherever it is.
Interrupt ==
    /\ mode = "daemon"
    /\ pc \notin {"stopped", "failed", "interrupted", "crashed"}
    /\ pc' = "interrupted"
    /\ UNCHANGED <<mode, dryRun, todo, cur, state, stateFile, tempFile, fs, sidecars, envVars, libVars,
                   ghostVars>>

\* A source file is rewritten between two passes: its modification time
\* changes.
Touch(f) ==
    /\ pc \in {"stopped", "failed", "sleep"}
    /\ mtime[f] < MaxMtime
    /\ mtime' = [mtime EXCEPT ![f] = mtime[f] + 1]
    /\ quiet' = "no"
    /\ UNCHANGED <<pc, mode, dryRun, todo, cur, state, stateFile, tempFile, fs, sidecars,
                   answer, fault, junctionStat, candidate, stem, libVars, last, pend, seen>>

Next ==
    \/ Launch
    \/ Wake
    \/ \E f \in Files : ScanFile(f)
    \/ ProcessFile
    \/ ScanDone
    \/ SaveOpen
    \/ SaveWrite
    \/ SaveReplace
    \/ Crash
    \/ Interrupt
    \/ \E f \in Files : Touch(f)

Spec == Init /\ [][Next]_vars

\* The same program over a source tree in which two files may have the
\* same stem (in different directories, or with different extensions) and
\* any of them may be unmatched; no step of the environment fails.
InitSidecar ==
    /\ mtime = [f \in Files |-> 1]
    /\ answer \in [Files -> Profiles]
    /\ fault = NoFault
    /\ junctionStat = TRUE
    /\ candidate = [f \in Files |-> "movie"]
    /\ stem \in {st \in [Files -> Stems] : st["f1"] = "a"}
    /\ fs = [n \in Names |-> EmptyDir]
    /\ pc = "stopped"
    /\ mode = "once"
    /\ dryRun = FALSE
    /\ todo = {}
    /\ cur = "none"
    /\ state = NoText
    /\ stateFile = NoFile
    /\ tempFile = NoFile
    /\ sidecars = NoSidecars
    /\ last = NoLast
    /\ pend = NoText
    /\ seen = NoText
    /\ quiet = "no"
    /\ call = NoCall
    /\ ai = AiEnabled
    /\ aiMet = FALSE

SpecSidecar == InitSidecar /\ [][Next]_vars

\* ------------------------------------------------ scanly: the legacy watcher

LegacyFaults == {NoFault, [kind |-> "link_fail", file |-> "none"], [kind |-> "vanish", file |-> "f1"]}

\* The legacy environment: what analyse_filename makes of each file name,
\* which step fails, what the destination tree holds before the first run.
InitLegacy ==
    /\ mtime = [f \in Files |-> 1]
    /\ answer = [f \in Files |-> PImdb]
    /\ candidate \in [Files -> Candidates]
    /\ stem = DistinctStems
    /\ fault \in LegacyFaults
    /\ junctionStat = TRUE
    /\ fs \in {[n \in Names |-> EmptyDir],
               [n \in Names |-> IF n = "movie" THEN OccupiedDir ELSE EmptyDir]}
    /\ pc = "stopped"
    /\ mode = "legacy"
    /\ dryRun = FALSE
    /\ todo = {}
    /\ cur = "none"
    /\ state = NoText
    /\ stateFile = NoFile
    /\ tempFile = NoFile
    /\ sidecars = NoSidecars
    /\ last = NoLast
    /\ pend = NoText
    /\ seen = NoText
    /\ quiet = "no"
    /\ call = NoCall
    /\ ai = AiEnabled
    /\ aiMet = FALSE

\* scanly/processor.py _symlink on the directory of one canonical name: an
\* existing destination that is a link or a file is unlinked, then the
\* link is created; a failure of os.symlink is raised again.
legacy_symlink(dir, src, lf, js) ==
    LET e == dir[0]
        present == Exists(e, js) \/ e.kind = "symlink"
        removable == e.kind = "symlink" \/ (Exists(e, js) /\ e.kind \in {"file", "junction"})
        cleared == IF present /\ removable THEN [dir EXCEPT ![0] = Empty] ELSE dir
    IN  IF present /\ ~removable
        THEN [dir |-> dir, raised |-> TRUE]
        ELSE IF lf = "none" /\ cleared[0] = Empty
        THEN [dir |-> [cleared EXCEPT ![0] = Link("symlink", src)], raised |-> FALSE]
        ELSE [dir |-> cleared, raised |-> TRUE]

\* run_forever up to the loop: the state is loaded once, the first pass starts.
LegacyLaunch ==
    /\ pc = "stopped"
    /\ mode' = "legacy"
    /\ state' = load_state(stateFile)
    /\ todo' = Files
    /\ cur' = "none"
    /\ pc' = "l_scan"
    /\ last' = NoLast
    /\ UNCHANGED <<dryRun, stateFile, tempFile, fs, sidecars, envVars, libVars, pend, seen, quiet>>

\* run_forever: time.sleep returns, process_once runs on the state in memory.
LegacyWake ==
    /\ pc = "sleep"
    /\ mode = "legacy"
    /\ todo' = Files
    /\ cur' = "none"
    /\ pc' = "l_scan"
    /\ last' = NoLast
    /\ UNCHANGED <<mode, dryRun, state, stateFile, tempFile, fs, sidecars, envVars, libVars, pend, seen, quiet>>

\* scanly/processor.py process_once, one iteration of the for loop.
LegacyFile(f) ==
    /\ pc = "l_scan"
    /\ f \in todo
    /\ todo' = todo \ {f}
    /\ cur' = f
    /\ LET m == mtime[f]
           c == candidate[f]
           lf == IF fault \in LinkFaults THEN fault.kind ELSE "none"
           lk == legacy_symlink(fs[c], f, lf, junctionStat)
           rec(o, st) == [file |-> f, outcome |-> o, mtime |-> m, unchanged |-> state[f] = m,
                          io |-> {"stat"}, kept |-> st[f] = state[f]]
       IN  IF fault = [kind |-> "vanish", file |-> f]
           THEN /\ last' = rec("vanished", state)
                /\ UNCHANGED <<state, fs>>
           ELSE IF state[f] = m
           THEN /\ last' = rec("skipped", state)
                /\ UNCHANGED <<state, fs>>
           ELSE IF c = "none"
           THEN /\ state' = mark_seen(state, f, m)
                /\ last' = rec("no_candidate", state')
                /\ UNCHANGED fs
           ELSE IF lk.raised
           THEN /\ fs' = [fs EXCEPT ![c] = lk.dir]
                /\ last' = rec("linkraise", state)
                /\ UNCHANGED state
           ELSE /\ fs' = [fs EXCEPT ![c] = lk.dir]
                /\ state' = mark_seen(state, f, m)
                /\ last' = rec("linked", state')
    /\ UNCHANGED <<pc, mode, dryRun, stateFile, tempFile, sidecars, envVars, libVars, pend, seen, quiet>>

\* process_once returns: run_forever calls save_state.
LegacyScanDone ==
    /\ pc = "l_scan"
    /\ todo = {}
    /\ pc' = "l_save"
    /\ UNCHANGED <<mode, dryRun, todo, cur, state, stateFile, tempFile, fs, sidecars, envVars, libVars,
                   ghostVars>>

\* scanly/processor.py save_state, then time.sleep, or the end of
\* run_forever when the call is the one of the KeyboardInterrupt handler.
LegacySave ==
    /\ pc = "l_save"
    /\ LET written == write_chunk([exists |-> TRUE, val |-> NoText, complete |-> FALSE], state)
       IN  /\ stateFile' = replace(written, stateFile).target
           /\ tempFile' = replace(written, stateFile).temp
    /\ pc' = IF mode = "stopping" THEN "stopped" ELSE "sleep"
    /\ UNCHANGED <<mode, dryRun, todo, cur, state, fs, sidecars, envVars, libVars, ghostVars>>

\* run_forever receives KeyboardInterrupt between two iterations, or while
\* it sleeps: the handler saves the state and the function returns.
LegacyInterrupt ==
    /\ mode = "legacy"
    /\ pc \in {"l_scan", "sleep"}
    /\ mode' = "stopping"
    /\ todo' = {}
    /\ pc' = "l_save"
    /\ UNCHANGED <<dryRun, cur, state, stateFile, tempFile, fs, sidecars, envVars, libVars, ghostVars>>

NextLegacy ==
    \/ LegacyLaunch
    \/ LegacyWake
    \/ \E f \in Files : LegacyFile(f)
    \/ LegacyScanDone
    \/ LegacySave
    \/ LegacyInterrupt
    \/ \E f \in Files : Touch(f)

SpecLegacy == InitLegacy /\ [][NextLegacy]_vars

\* ------------------------------------------- library functions on their own

\* The variables of the running program.
progVars == <<pc, mode, dryRun, todo, cur, state, stateFile, tempFile, fs, sidecars, stem,
              mtime, answer, fault, junctionStat, candidate, last, pend, seen, quiet>>

\* No program runs; one library function is called, once.
InitFunctions ==
    /\ mtime = [f \in Files |-> 1]
    /\ answer = [f \in Files |-> PImdb]
    /\ fault = NoFault
    /\ junctionStat = TRUE
    /\ candidate = [f \in Files |-> "movie"]
    /\ stem = DistinctStems
    /\ fs = [n \in Names |-> EmptyDir]
    /\ pc = "stopped"
    /\ mode = "once"
    /\ dryRun = FALSE
    /\ todo = {}
    /\ cur = "none"
    /\ state = NoText
    /\ stateFile = NoFile
    /\ tempFile = NoFile
    /\ sidecars = NoSidecars
    /\ last = NoLast
    /\ pend = NoText
    /\ seen = NoText
    /\ quiet = "no"
    /\ call = NoCall
    /\ ai = AiEnabled
    /\ aiMet = FALSE

\* Years of a query and of a candidate; 0 stands for None.
Years == {0, 1999, 2003}

\* similarity.evaluate_match on a pair of titles whose token-sort ratio is
\* base, with the given years, marker match and folder match.
CallEvaluateMatch ==
    /\ call = NoCall
    /\ \E base \in 0..MaxRatio, qy \in Years, cy \in Years, sxx \in BOOLEAN, folder \in BOOLEAN :
          call' = [fn |-> "evaluate_match", base |-> base, query_year |-> qy,
                   candidate_year |-> cy, sxx_match |-> sxx, folder_context_match |-> folder,
                   result |-> evaluate_match(base, year_match_of(qy, cy), sxx, folder)]
    /\ UNCHANGED <<progVars, ai, aiMet>>

\* win_scanly/imdb_client.py search_show: the score of the first candidate
\* after the season boost (season 0: None).
search_show(score, media_type, season) ==
    IF season # 0 /\ media_type = "show" THEN score + 1 ELSE score

\* Remote results the candidate selection is tried on.
SomeRes == {NoRes, Res(70, TRUE), Res(85, FALSE), Res(95, TRUE)}

\* process_file, the candidate selection, on the results of the lookups:
\* the local cache answers through search_title or, for an episodic file
\* when that found nothing, through search_show.
CallDecide ==
    /\ call = NoCall
    /\ \E score \in -1..MaxRatio, via_show \in BOOLEAN, season \in 0..1,
          movie \in SomeRes, show \in SomeRes :
          LET a == [imdb |-> IF via_show /\ score >= 0 THEN search_show(score, "show", season) ELSE score,
                    imdbType |-> IF via_show THEN "show" ELSE "movie",
                    movie |-> movie, show |-> show]
          IN  call' = [fn |-> "decide", answer |-> a, via_show |-> via_show, result |-> Decide(a)]
    /\ UNCHANGED <<progVars, ai, aiMet>>

\* ------------------------------------------- win_scanly: filename_cleaner

\* A file name is the sequence of the tokens _TOKEN_SPLIT_RE cuts its stem
\* into.  The tokens, by the patterns of filename_cleaner.py they match:
WordTokens == {"The", "Matrix", "GROUP", "OVA"}     \* none of the patterns
StopTokens == {"BluRay", "x264"}                     \* lower-cased, in _STOPWORDS
ResTokens == {"1080p"}                               \* \d{3,4}p
YearTokens == {"1999"}                               \* _YEAR_RE
SxxEyyTokens == {"S01E02"}                           \* _SXXEYY_RE
SeasonTokens == {"S03", "S00"}                       \* _SEASON_RE
EpisodeTokens == {"E04"}                             \* _EPISODE_RE
SeasonWordTokens == {"Season4"}                      \* _SEASON_WORD_RE, no other pattern
EpisodeWordTokens == {"Episode9"}                    \* _EPISODE_WORD_RE, no other pattern
RangeTokens == {"2x05"}                              \* _RANGE_RE
NumberTokens == {"7"}                                \* \d+(?:\.\d+)?
BreakWords == {"season", "episode", "part", "disc"}
Tokens == WordTokens \cup StopTokens \cup ResTokens \cup YearTokens \cup SxxEyyTokens
              \cup SeasonTokens \cup RangeTokens \cup NumberTokens
              \cup EpisodeTokens \cup SeasonWordTokens \cup EpisodeWordTokens

\* The numbers a token carries: the year (0: none), the season and the
\* episode (-1: none).
YearOf(t) == IF t = "1999" THEN 1999 ELSE 0
SeasonOf(t) ==
    IF t = "S01E02" THEN 1 ELSE IF t = "S03" THEN 3 ELSE IF t = "S00" THEN 0
    ELSE IF t = "2x05" THEN 2 ELSE IF t = "Season4" THEN 4 ELSE -1
EpisodeOf(t) ==
    IF t = "S01E02" THEN 2 ELSE IF t = "2x05" THEN 5 ELSE IF t = "E04" THEN 4
    ELSE IF t = "Episode9" THEN 9 ELSE -1

\* Substring tests of _infer_media_type on the lower-cased token.
HasAnimeHint(t) == t \in {"OVA"}
HasS0(t) == t \in {"S01E02", "S03", "S00"}
HasE0(t) == t \in {"S01E02", "E04"}

\* re.search with a pattern on the text: the first token of the name in
\* the class, "" when there is none.
RECURSIVE FirstIn(_, _)
FirstIn(name, class) ==
    IF name = <<>> THEN ""
    ELSE IF Head(name) \in class THEN Head(name)
    ELSE FirstIn(Tail(name), class)

\* filename_cleaner.py _extract_year
extract_year(name) == YearOf(FirstIn(name, YearTokens))

\* _extract_season_episode after the SxxEyy search found nothing: the NxM
\* pattern, then for a season still None the S## token or else the
\* "season N" words, then for an episode still None the E## token or else
\* the "episode N" words.
later_patterns(name) ==
    LET rng == FirstIn(name, RangeTokens)
        sea == FirstIn(name, SeasonTokens)
        seaw == FirstIn(name, SeasonWordTokens)
        epi == FirstIn(name, EpisodeTokens)
        epiw == FirstIn(name, EpisodeWordTokens)
        season0 == SeasonOf(rng)
        episode0 == EpisodeOf(rng)
    IN  [season |-> IF season0 # -1 THEN season0
                    ELSE IF sea # "" THEN SeasonOf(sea) ELSE SeasonOf(seaw),
         episode |-> IF episode0 # -1 THEN episode0
                     ELSE IF epi # "" THEN EpisodeOf(epi) ELSE EpisodeOf(epiw)]

\* An _extract_season_episode that tries the NxM pattern first.
extract_season_episode_range_first(name) ==
    LET sxe == FirstIn(name, SxxEyyTokens)
        rng == FirstIn(name, RangeTokens)
    IN  IF rng # ""
        THEN [season |-> SeasonOf(rng), episode |-> EpisodeOf(rng)]
        ELSE IF sxe # ""
        THEN [season |-> SeasonOf(sxe), episode |-> EpisodeOf(sxe)]
        ELSE later_patterns(name)

\* filename_cleaner.py _extract_season_episode (-1: None)
extract_season_episode(name) ==
    LET sxe == FirstIn(name, SxxEyyTokens)
    IN  IF sxe # ""
        THEN [season |-> SeasonOf(sxe), episode |-> EpisodeOf(sxe)]
        ELSE later_patterns(name)

\* Python's truth value of an Optional[int] (-1: None).
Truthy(n) == n \notin {-1, 0}

\* filename_cleaner.py _infer_media_type
infer_media_type(name, season, episode) ==
    IF Truthy(season) \/ Truthy(episode) THEN "show"
    ELSE IF \E i \in DOMAIN name : HasAnimeHint(name[i]) THEN "anime"
    ELSE IF (\E i \in DOMAIN name : HasS0(name[i])) /\ (\E i \in DOMAIN name : HasE0(name[i])) THEN "show"
    ELSE "movie"

\* filename_cleaner.py _clean_tokens: every token that matches one of the
\* patterns is left out, the others are kept in order.
Dropped(t) == t \in StopTokens \cup YearTokens \cup SxxEyyTokens \cup SeasonTokens
                      \cup EpisodeTokens \cup RangeTokens \cup ResTokens \cup NumberTokens
clean_tokens(name) == SelectSeq(name, LAMBDA t : ~Dropped(t))

\* filename_cleaner.py _title_tokens: the tokens before the first one the
\* loop breaks on.
Breaks(t) == t \in BreakWords \cup NumberTokens \cup YearTokens \cup SxxEyyTokens \cup SeasonTokens
                     \cup EpisodeTokens
RECURSIVE title_tokens(_)
title_tokens(tokens) ==
    IF tokens = <<>> THEN <<>>
    ELSE IF Breaks(Head(tokens)) THEN <<>>
    ELSE <<Head(tokens)>> \o title_tokens(Tail(tokens))

\* What ai_parse_filename returns to clean_filename: None, or a document
\* with a guess of the title and hints (0: null; the merge tests the hints
\* for truth only).
NoAi == [present |-> FALSE, title |-> <<>>, year |-> 0, season |-> 0, episode |-> 0]
AiAnswers == {NoAi,
              [present |-> TRUE, title |-> <<>>, year |-> 0, season |-> 0, episode |-> 0],
              [present |-> TRUE, title |-> <<"OVA">>, year |-> 2003, season |-> 5, episode |-> 6]}

\* filename_cleaner.py _apply_ai_normalisation
apply_ai_normalisation(clean_title, ai_data) ==
    IF ~ai_data.present
    THEN [title |-> clean_title, year |-> 0, season |-> 0, episode |-> 0]
    ELSE [title |-> IF ai_data.title # <<>> THEN ai_data.title ELSE clean_title,
          year |-> ai_data.year, season |-> ai_data.season, episode |-> ai_data.episode]

\* filename_cleaner.py clean_filename; a title is the sequence of its words.
clean_filename(name, ai_data) ==
    LET year0 == extract_year(name)
        se == extract_season_episode(name)
        media0 == infer_media_type(name, se.season, se.episode)
        tokens == clean_tokens(name)
        tt == title_tokens(tokens)
        clean_title == IF tt # <<>> THEN tt ELSE name
        norm == apply_ai_normalisation(clean_title, ai_data)
        year == IF year0 = 0 /\ norm.year # 0 THEN norm.year ELSE year0
        season == IF norm.season # 0 /\ ~Truthy(se.season) THEN norm.season ELSE se.season
        episode == IF norm.episode # 0 /\ ~Truthy(se.episode) THEN norm.episode ELSE se.episode
        media1 == IF media0 # "show" /\ (\E i \in DOMAIN norm.title : HasAnimeHint(norm.title[i]))
                  THEN "anime" ELSE media0
        media == IF media1 = "movie" /\ (Truthy(season) \/ Truthy(episode)) THEN "show" ELSE media1
    IN  [clean_title |-> clean_title, normalized_title |-> norm.title, year |-> year,
         season |-> season, episode |-> episode, media_type |-> media, tokens |-> tokens]

\* The stem of "The.Matrix.1999.1080p.BluRay.x264-GROUP.mkv".
MatrixName == <<"The", "Matrix", "1999", "1080p", "BluRay", "x264", "GROUP">>

\* The file names clean_filename is tried on.
FileNames == {MatrixName} \cup UNION {[1..n -> Tokens] : n \in 1..MaxTokens}

CallCleanFilename ==
    /\ call = NoCall
    /\ \E name \in FileNames, ai_data \in AiAnswers :
          call' = [fn |-> "clean_filename", name |-> name, ai_data |-> ai_data,
                   result |-> clean_filename(name, ai_data)]
    /\ UNCHANGED <<progVars, ai, aiMet>>

\* _extract_season_episode on the text of a file name.
CallExtractSeasonEpisode ==
    /\ call = NoCall
    /\ \E name \in FileNames :
          call' = [fn |-> "extract_season_episode", name |-> name,
                   result |-> extract_season_episode(name)]
    /\ UNCHANGED <<progVars, ai, aiMet>>

\* process_file, from the parsed file name to the MediaCandidate: the
\* media type is the one of the chosen match, the season and the episode
\* are those of the parsed name.  built: a candidate is made, i.e. a match
\* was accepted.
make_candidate(parsed, d) ==
    [built |-> ~Unmatched(d), media_type |-> d.type, of |-> d.best,
     season |-> parsed.season, episode |-> parsed.episode]

\* The local cache holds the title as a series.
PImdbShow == [imdb |-> 75, imdbType |-> "show", movie |-> NoRes, show |-> NoRes]

\* File names of one or two tokens.
ShortNames == UNION {[1..n -> Tokens] : n \in 1..2}

\* process_file up to the candidate, on a file name, an enrichment answer
\* and the answers of the providers.
CallMakeCandidate ==
    /\ call = NoCall
    /\ \E name \in ShortNames, ai_data \in AiAnswers, a \in Profiles \cup {PImdbShow} :
          LET parsed == clean_filename(name, ai_data)
          IN  call' = [fn |-> "make_candidate", name |-> name, ai_data |-> ai_data, answer |-> a,
                       parsed |-> parsed, result |-> make_candidate(parsed, Decide(a))]
    /\ UNCHANGED <<progVars, ai, aiMet>>

\* ---------------------------------------------------- win_scanly: naming

\* Characters of a title: a letter, a character Windows forbids in a path
\* component, a blank.  A text is the sequence of its characters.
Chars == {"A", ":", " "}
Forbidden == {":"}
Texts == UNION {[1..n -> Chars] : n \in 0..MaxTitle}

\* re.sub(r"\s{2,}", " ", text)
RECURSIVE Collapse(_)
Collapse(text) ==
    IF Len(text) < 2 THEN text
    ELSE IF text[1] = " " /\ text[2] = " " THEN Collapse(Tail(text))
    ELSE <<text[1]>> \o Collapse(Tail(text))

\* str.strip()
RECURSIVE LStrip(_)
LStrip(text) == IF text # <<>> /\ Head(text) = " " THEN LStrip(Tail(text)) ELSE text
RECURSIVE RStrip(_)
RStrip(text) ==
    IF text # <<>> /\ text[Len(text)] = " " THEN RStrip(SubSeq(text, 1, Len(text) - 1)) ELSE text

\* naming.py _safe_component
safe_component(text) ==
    RStrip(LStrip(Collapse(SelectSeq(text, LAMBDA c : c \notin Forbidden))))

\* f"{n:02d}" for the numbers of the model, and f"{year}".
Pad2(n) == <<"00", "01", "02", "03", "04", "05", "06", "07", "08", "09">>[n + 1]
YearText(y) == IF y = 1999 THEN "1999" ELSE "2003"

\* naming.py _format_season (-1: None)
format_season(season) ==
    IF season # -1 /\ season # 0 THEN <<"Season ", Pad2(season)>> ELSE <<"Season ", "01">>

\* naming.py _format_episode (-1: None)
format_episode(season, episode) ==
    IF season = -1 \/ episode = -1 THEN <<>>
    ELSE <<"S", Pad2(season), "E", Pad2(episode)>>

\* pathlib: root / part / ... ; joining an empty part changes nothing.  A
\* path is its root and the parts under it, a part the sequence of its pieces.
path(root, parts) == [root |-> root, parts |-> SelectSeq(parts, LAMBDA p : p # <<>>)]

\* A build_destination that takes the year of the match only.
destination_year_of_match(tmdb_year, year_hint) == tmdb_year

\* naming.py build_destination: year = tmdb_data.year or candidate.year_hint
destination_year(tmdb_year, year_hint) ==
    IF tmdb_year # 0 THEN tmdb_year ELSE year_hint

\* naming.py build_destination
build_destination(source, cand, tmdb_data) ==
    LET title == IF tmdb_data.title # <<>> THEN tmdb_data.title
                 ELSE IF cand.query # <<>> THEN cand.query ELSE source.stem
        year == destination_year(tmdb_data.year, cand.year_hint)
        clean_title == safe_component(title)
        with_year == IF year # 0 THEN clean_title \o <<" (", YearText(year), ")">> ELSE clean_title
        fallback == [destination |-> path("unmatched", <<source.stem \o <<source.suffix>>>>),
                     canonical_name |-> source.stem]
        season_dir == format_season(cand.season)
        sxxexx == format_episode(cand.season, cand.episode)
        file_name == IF sxxexx # <<>> THEN clean_title \o <<" - ">> \o sxxexx ELSE clean_title
    IN  IF tmdb_data.title = <<>>
        THEN fallback @@ [media_type |-> "unmatched"]
        ELSE IF cand.media_type = "movie"
        THEN [destination |-> path("movies", <<with_year, with_year \o <<source.suffix>>>>),
              canonical_name |-> with_year, media_type |-> cand.media_type]
        ELSE IF cand.media_type \in {"show", "anime"}
        THEN [destination |-> path("shows", <<with_year, season_dir, file_name \o <<source.suffix>>>>),
              canonical_name |-> with_year \o <<"/">> \o season_dir \o <<"/">> \o file_name \o <<source.suffix>>,
              media_type |-> cand.media_type]
        ELSE fallback @@ [media_type |-> cand.media_type]

\* Season and episode numbers of a candidate (-1: None).
Numbers == {-1, 0, 2}

CallBuildDestination ==
    /\ call = NoCall
    /\ \E title \in Texts, year \in {0, 2003}, query \in {<<>>, <<"A">>}, year_hint \in {0, 1999},
          media_type \in {"movie", "show", "anime", "other"}, season \in Numbers, episode \in Numbers :
          LET source == [stem |-> <<"A", "A">>, suffix |-> ".mkv"]
              cand == [media_type |-> media_type, query |-> query, year_hint |-> year_hint,
                       season |-> season, episode |-> episode]
              tmdb_data == [title |-> title, year |-> year]
          IN  call' = [fn |-> "build_destination", source |-> source, candidate |-> cand,
                       tmdb_data |-> tmdb_data, result |-> build_destination(source, cand, tmdb_data)]
    /\ UNCHANGED <<progVars, ai, aiMet>>

\* --------------------------------------------------- win_scanly: scanner

\* Root 0 is config.source_dir, root i the i-th entry of config.fallback_dirs.
Fallbacks == 1..MaxFallbacks
Roots == 0..MaxFallbacks

\* What a root holds: nothing, or one file that is a media file, too small,
\* too short, or of an unsupported extension.
Holdings == {"none", "media", "small", "short", "unsupported"}

\* scanner.py _iter_roots
iter_roots(source_exists, fallback_exists) ==
    IF source_exists THEN <<0>>
    ELSE SelectSeq([i \in Fallbacks |-> i], LAMBDA i : fallback_exists[i])

\* scanner.py iter_media_files: the roots walked and the entries yielded,
\* each entry named by the root it lies under.
iter_media_files(source_exists, fallback_exists, holds) ==
    LET roots == iter_roots(source_exists, fallback_exists)
    IN  [roots |-> roots, entries |-> SelectSeq(roots, LAMBDA r : holds[r] = "media")]

CallIterMediaFiles ==
    /\ call = NoCall
    /\ \E source_exists \in BOOLEAN, fallback_exists \in [Fallbacks -> BOOLEAN], holds \in [Roots -> Holdings] :
          call' = [fn |-> "iter_media_files", source_exists |-> source_exists,
                   fallback_exists |-> fallback_exists, holds |-> holds,
                   result |-> iter_media_files(source_exists, fallback_exists, holds)]
    /\ UNCHANGED <<progVars, ai, aiMet>>

\* Suffixes of the paths under a root and of the ALLOWED_EXTENSIONS entries.
Suffixes == {".mkv", ".MKV", ".mp4", ".Mp4", ".txt", ""}

\* str.lower() on a suffix.
Lower(suffix) ==
    IF suffix \in {".mkv", ".MKV"} THEN ".mkv"
    ELSE IF suffix \in {".mp4", ".Mp4"} THEN ".mp4"
    ELSE suffix

\* config.py Config.from_env: allowed_extensions, from the entries of
\* ALLOWED_EXTENSIONS.
allowed_extensions(configured) == {Lower(ext) : ext \in configured}

\* An is_supported that compares the suffix as it is written.
is_supported_as_written(suffix, allowed) == suffix \in allowed

\* config.py Config.is_supported
is_supported(suffix, allowed) == Lower(suffix) \in allowed

\* scanner.py iter_media_files, the body of the loop over root.rglob("*") on
\* one path: TRUE when the path is yielded.  gone: the path has vanished
\* when stat() is called, the exception is logged inside the loop.
\* duration -1: get_media_duration returned None.
scan_path(p, allowed) ==
    IF ~p.is_file THEN FALSE
    ELSE IF ~is_supported(p.suffix, allowed) THEN FALSE
    ELSE IF p.gone THEN FALSE
    ELSE IF p.size < MIN_SIZE_BYTES THEN FALSE
    ELSE IF p.duration # -1 /\ p.duration < MIN_DURATION_SECONDS THEN FALSE
    ELSE TRUE

Sizes == {MIN_SIZE_BYTES - 1, MIN_SIZE_BYTES, MIN_SIZE_BYTES + 1}
Durations == {-1, MIN_DURATION_SECONDS - 1, MIN_DURATION_SECONDS, MIN_DURATION_SECONDS + 1}

CallScanPath ==
    /\ call = NoCall
    /\ \E suffix \in Suffixes, configured \in SUBSET {".mkv", ".MKV", ".mp4"}, size \in Sizes,
          duration \in Durations, is_file \in BOOLEAN, gone \in BOOLEAN :
          LET p == [is_file |-> is_file, suffix |-> suffix, size |-> size, duration |-> duration,
                    gone |-> is_file /\ gone]
          IN  call' = [fn |-> "scan_path", path |-> p, configured |-> configured,
                       result |-> scan_path(p, allowed_extensions(configured))]
    /\ UNCHANGED <<progVars, ai, aiMet>>

NextFunctions ==
    \/ CallEvaluateMatch
    \/ CallDecide
    \/ CallCleanFilename
    \/ CallBuildDestination
    \/ CallIterMediaFiles
    \/ CallScanPath
    \/ CallExtractSeasonEpisode
    \/ CallMakeCandidate

SpecFunctions == InitFunctions /\ [][NextFunctions]_vars

\* ------------------------------------------------- win_scanly: ai_parser

\* ai_parser.py _disable_ai
disable_ai(g, reason) ==
    [use |-> FALSE, reason |-> IF g.reason = "none" THEN reason ELSE g.reason]

\* What requests.post, raise_for_status and the decoding of the answer can
\* come to in ai_parse_filename.
Posts == {"ok", "empty", "bad_json", "non_dict", "timeout", "http_error", "conn_error", "other_error"}

\* An ai_parse_filename that takes a timeout for an unreachable service.
ai_parse_filename_timeout_disables(g, running, startable, post) ==
    LET up == IF running THEN {"probe"} ELSE {"probe", "start"}
    IN  IF ~g.use
        THEN [g |-> g, result |-> "none", io |-> {}]
        ELSE IF ~running /\ ~startable
        THEN [g |-> g, result |-> "none", io |-> up]
        ELSE IF post = "ok"
        THEN [g |-> g, result |-> "parsed", io |-> up \cup {"http"}]
        ELSE IF post = "http_error"
        THEN [g |-> disable_ai(g, "http"), result |-> "none", io |-> up \cup {"http"}]
        ELSE IF post \in {"conn_error", "timeout"}
        THEN [g |-> disable_ai(g, "unreachable"), result |-> "none", io |-> up \cup {"http"}]
        ELSE [g |-> g, result |-> "none", io |-> up \cup {"http"}]

\* ai_parser.py ai_parse_filename.  running: the socket probe of
\* _is_ollama_running connects; startable: _start_ollama_service brings the
\* service up; post: what the HTTP request comes to.  The result carries
\* the module globals after the call, what is returned and the I/O done.
ai_parse_filename(g, running, startable, post) ==
    LET up == IF running THEN {"probe"} ELSE {"probe", "start"}
    IN  IF ~g.use
        THEN [g |-> g, result |-> "none", io |-> {}]
        ELSE IF ~running /\ ~startable
        THEN [g |-> g, result |-> "none", io |-> up]
        ELSE IF post = "ok"
        THEN [g |-> g, result |-> "parsed", io |-> up \cup {"http"}]
        ELSE IF post = "http_error"
        THEN [g |-> disable_ai(g, "http"), result |-> "none", io |-> up \cup {"http"}]
        ELSE IF post = "conn_error"
        THEN [g |-> disable_ai(g, "unreachable"), result |-> "none", io |-> up \cup {"http"}]
        ELSE [g |-> g, result |-> "none", io |-> up \cup {"http"}]

\* One call of ai_parse_filename, as clean_filename makes for each file.
AiParse ==
    /\ \E f \in Files, running \in BOOLEAN, startable \in BOOLEAN, post \in Posts :
          LET r == ai_parse_filename(ai, running, startable, post)
              refused == (~running /\ ~startable) \/ ((running \/ startable) /\ post = "conn_error")
              http == (running \/ startable) /\ post = "http_error"
          IN  /\ ai' = r.g
              /\ call' = [fn |-> "ai_parse_filename", filename |-> f, running |-> running,
                          startable |-> startable, post |-> post, met_before |-> aiMet,
                          io |-> r.io, result |-> r.result]
              /\ aiMet' = (aiMet \/ (ai.use /\ (refused \/ http)))
    /\ UNCHANGED progVars

NextAI ==
    \/ AiParse

SpecAI == InitFunctions /\ [][NextAI]_vars

\* The outcomes of process_file in which the pipeline ran on the file.
Pipeline == {"raised", "unmatched", "dryrun", "linked", "linkfail", "linkraise"}
InPass == pc \in {"scan", "file", "save_open", "save_write", "save_replace"}
LinkOf(f) == {Link("symlink", f), Link("junction", f)}
HasLink(f) == \E n \in Names, k \in Slots : fs[n][k] \in LinkOf(f)

TypeOK ==
    /\ pc \in {"stopped", "failed", "interrupted", "crashed", "scan", "file", "save_open",
              "save_write", "save_replace", "sleep", "l_scan", "l_save"}
    /\ candidate \in [Files -> Candidates]
    /\ state \in [Files -> 0..MaxMtime]
    /\ \A n \in Names : \A s \in Slots : fs[n][s] \in Entries
    /\ fault \in Faults


\* ------------------------------------------------------------------ claims

\* C1: when link creation fails for a file during a pass (the link step
\* reports failure or raises), the file's state entry is not set to its
\* current modification time, so that the next pass runs the pipeline on it
\* again.
C1_LinkFailureLeavesStateUnset ==
    last.outcome \in {"linkfail", "linkraise"} => state[last.file] # mtime[last.file]

C3_UnchangedFileOnlyStat ==
    (last.file \in Files /\ last.unchanged) =>
        /\ last.outcome \notin Pipeline
        /\ last.io \subseteq {"stat"}
        /\ last.kept

\* C4: a pass over a source tree and an environment that are as they were
\* during the previous completed pass, run with the same arguments, creates
\* no link, writes no sidecar and leaves the persisted state snapshot as
\* that pass wrote it.
SameAsPrevious == quiet = (IF dryRun THEN "dry" ELSE "normal")

C4_SecondPassIdempotent ==
    [][(SameAsPrevious /\ InPass) =>
          /\ fs' = fs
          /\ sidecars' = sidecars
          /\ load_state(stateFile') = load_state(stateFile)]_vars

\* The second pass is about to replace a snapshot that records a linked file.
C4_Witness ==
    /\ SameAsPrevious
    /\ pc = "save_replace"
    /\ stateFile.exists
    /\ \E f \in Files : stateFile.val[f] = mtime[f] /\ HasLink(f)

\* C5: at every step, save_state and a crash in the middle of it included,
\* the state file holds a whole document, and when it changes it changes to
\* the full mapping save_state was given.
C5_StateFileOldOrNew ==
    [][/\ stateFile'.exists => stateFile'.complete
       /\ stateFile' # stateFile => load_state(stateFile') = state]_vars

\* The process died while the temporary file held a prefix of the new
\* document; the state file holds the mapping of the previous pass.
C5_Witness ==
    /\ pc = "crashed"
    /\ tempFile.exists /\ ~tempFile.complete
    /\ stateFile.exists /\ stateFile.complete
    /\ \E f \in Files : stateFile.val[f] # 0 /\ stateFile.val[f] # mtime[f]

\* C6: an error raised while handling one file never leaves the pass: the
\* pass goes on, and nothing reaches the caller.
C6_NoErrorLeavesThePass ==
    pc # "failed" /\ last.outcome # "escaped"

\* C7: after an interrupt of the continuous loop the persisted snapshot
\* holds every state update made before the interrupt.
C7_InterruptPersistsState ==
    pc = "interrupted" => load_state(stateFile) = state

\* C8: create_symlink on a destination that is already a link to the same
\* source, made by either mechanism, changes nothing and returns success.
C8_RelinkIsNoOp ==
    [][\A n \in Names :
          (/\ pc = "file"
           /\ last'.outcome \in {"linked", "linkfail", "linkraise"}
           /\ Decide(answer[cur]).type = n
           /\ fs[n][0] \in LinkOf(cur))
          => (fs' = fs /\ last'.outcome = "linked")]_vars

\* The smallest positive slot of a directory that holds no entry.
SmallestUnused(dir) ==
    CHOOSE k \in 1..(MaxSlot + 1) :
        /\ k <= MaxSlot => dir[k] = Empty
        /\ \A j \in 1..(k - 1) : dir[j] # Empty

C10_LinkNeverClobbers ==
    [][\A n \in Names, k \in Slots :
          (fs[n][k] # Empty /\ fs[n][k].src # last'.file) => fs'[n][k] = fs[n][k]]_vars

\* The document process_file writes for an unmatched file: its path, the
\* candidates the lookups returned and the verdict.
SidecarOf(f) ==
    [file |-> f, imdb |-> answer[f].imdb, movie |-> answer[f].movie, show |-> answer[f].show,
     similarity |-> Decide(answer[f]).sim]

\* C11: a file for which no candidate is accepted has, once it was handled,
\* a sidecar under the unmatched root that holds its file name and the
\* candidates considered, and no link.
C11_UnmatchedGetsSidecar ==
    last.outcome \in {"unmatched", "no_candidate"} =>
        /\ sidecars[stem[last.file]] = SidecarOf(last.file)
        /\ ~HasLink(last.file)

\* C12: every file the running pass classified unmatched has a sidecar
\* whose recorded file name is that file.
C12_OneSidecarPerUnmatched ==
    \A f \in Files :
        (pend[f] # 0 /\ Unmatched(Decide(answer[f]))) => sidecars[stem[f]].file = f

\* C13: evaluate_match accepts with reason strict_accept when the score is
\* at least 90; accepts with a warning and reason loose_accept_year_match
\* when the score is in [80, 90) and the two years are known and equal;
\* rejects without a warning in every other case.
C13_VerdictPolicy ==
    call.fn = "evaluate_match" =>
        LET r == call.result
            years_equal == call.query_year # 0 /\ call.query_year = call.candidate_year
        IN  IF r.score >= 90
            THEN r.accepted /\ r.reason = "strict_accept"
            ELSE IF r.score >= 80 /\ years_equal
            THEN r.accepted /\ r.warn /\ r.reason = "loose_accept_year_match"
            ELSE ~r.accepted /\ ~r.warn

\* A ratio of 75 lifted into the loose band by the year bonus and accepted
\* with a warning.
C13_Witness ==
    /\ call.fn = "evaluate_match"
    /\ call.base = 75
    /\ call.result.score = 85
    /\ call.query_year = 1999 /\ call.candidate_year = 1999
    /\ call.result.accepted /\ call.result.warn

\* C14: the verdict process_file decides on carries a score in [0, 100] and
\* one of the three verdict reasons.
C14_VerdictInRange ==
    (call.fn = "decide" /\ call.result.best # "none") =>
        /\ call.result.sim.score >= 0
        /\ call.result.sim.score <= 100
        /\ call.result.sim.reason \in {"strict_accept", "loose_accept_year_match", "unmatched"}

\* C15: once an ai_parse_filename call has ended on a refused connection
\* or an HTTP error, enrichment is disabled and stays so, and every later
\* call returns no opinion without any I/O.
C15_BreakerStaysOpen ==
    /\ aiMet => ~ai.use
    /\ (call.fn = "ai_parse_filename" /\ call.met_before) =>
           (call.io = {} /\ call.result = "none")

\* C16: for a file name that holds an SxxEyy marker of season 1, episode 2,
\* clean_filename returns media type show, season 1 and episode 2, whatever
\* tokens surround the marker and whatever the enrichment returned.
C16_MarkerWins ==
    (call.fn = "clean_filename" /\ \E i \in DOMAIN call.name : call.name[i] = "S01E02") =>
        /\ call.result.media_type = "show"
        /\ call.result.season = 1
        /\ call.result.episode = 2

\* The marker between a stopword and an NxM token, with enrichment hints
\* for another season and episode.
C16_Witness ==
    /\ call.fn = "clean_filename"
    /\ call.name = <<"BluRay", "S01E02", "2x05">>
    /\ call.ai_data.season = 5
    /\ call.result.season = 1 /\ call.result.episode = 2

\* The tokens of a name that are no release tags, up to the first that is
\* purely numeric, a year or a season/episode marker.
RECURSIVE PrefixBeforeMarker(_)
PrefixBeforeMarker(name) ==
    IF name = <<>> THEN <<>>
    ELSE IF Head(name) \in NumberTokens \cup YearTokens \cup SxxEyyTokens \cup SeasonTokens \cup RangeTokens
    THEN <<>>
    ELSE IF Head(name) \in StopTokens \cup ResTokens
    THEN PrefixBeforeMarker(Tail(name))
    ELSE <<Head(name)>> \o PrefixBeforeMarker(Tail(name))

\* C17: "The.Matrix.1999.1080p.BluRay.x264-GROUP.mkv" gives the title
\* "The Matrix", the year 1999 and the type movie; and a title taken from
\* the tokens is the prefix of the stopword-free tokens before the first
\* numeric, year or marker token.
C17_TitleStopsAtMarker ==
    call.fn = "clean_filename" =>
        /\ call.name = MatrixName =>
              /\ call.result.clean_title = <<"The", "Matrix">>
              /\ call.result.year = 1999
              /\ call.result.media_type = "movie"
        /\ PrefixBeforeMarker(call.name) # <<>> =>
              call.result.clean_title = PrefixBeforeMarker(call.name)

\* A text is safe as a path component: no forbidden character, no run of
\* blanks, no blank at either end.
IsSafe(text) ==
    /\ \A i \in DOMAIN text : text[i] \notin Forbidden
    /\ \A i \in 1..(Len(text) - 1) : ~(text[i] = " " /\ text[i + 1] = " ")
    /\ text # <<>> => (text[1] # " " /\ text[Len(text)] # " ")

\* C18: for a movie match with a title, the destination is
\* {movies}/{D}/{D}{ext}, where D is the safe title followed by " (Year)"
\* exactly when the match or the candidate's hint gives a year.
C18_MovieDestination ==
    (/\ call.fn = "build_destination"
     /\ call.tmdb_data.title # <<>>
     /\ call.candidate.media_type = "movie") =>
        LET title == safe_component(call.tmdb_data.title)
            known == call.tmdb_data.year # 0 \/ call.candidate.year_hint # 0
            year == IF call.tmdb_data.year # 0 THEN call.tmdb_data.year ELSE call.candidate.year_hint
            D == IF known THEN title \o <<" (", YearText(year), ")">> ELSE title
        IN  /\ IsSafe(title)
            /\ call.result.destination = path("movies", <<D, D \o <<call.source.suffix>>>>)

\* A movie whose match has no year and whose candidate hints 1999, with a
\* title that needed cleaning.
C18_Witness ==
    /\ call.fn = "build_destination"
    /\ call.candidate.media_type = "movie"
    /\ call.tmdb_data.title = <<"A", ":", " ">>
    /\ call.tmdb_data.year = 0
    /\ call.candidate.year_hint = 1999
    /\ call.result.destination.parts = <<(<<"A", " (", "1999", ")">>), (<<"A", " (", "1999", ")", ".mkv">>)>>

\* C19: for a show or anime match with a title, the destination is
\* {shows}/{Title[ (Year)]}/Season NN/{Title} - SNNENN{ext}, a missing
\* season or episode being taken as 1.
C19_ShowDestination ==
    (/\ call.fn = "build_destination"
     /\ call.tmdb_data.title # <<>>
     /\ call.candidate.media_type \in {"show", "anime"}) =>
        LET title == safe_component(call.tmdb_data.title)
            known == call.tmdb_data.year # 0 \/ call.candidate.year_hint # 0
            year == IF call.tmdb_data.year # 0 THEN call.tmdb_data.year ELSE call.candidate.year_hint
            base == IF known THEN title \o <<" (", YearText(year), ")">> ELSE title
            season == IF call.candidate.season = -1 THEN 1 ELSE call.candidate.season
            episode == IF call.candidate.episode = -1 THEN 1 ELSE call.candidate.episode
        IN  call.result.destination =
                path("shows", <<base, <<"Season ", Pad2(season)>>,
                                title \o <<" - ", "S", Pad2(season), "E", Pad2(episode), call.source.suffix>>>>)

\* The root the scan is to take: the primary directory if it exists, else
\* the first existing fallback; <<>> when none exists.
FirstExistingRoot(source_exists, fallback_exists) ==
    IF source_exists THEN <<0>>
    ELSE IF \E i \in Fallbacks : fallback_exists[i]
    THEN <<CHOOSE i \in Fallbacks : fallback_exists[i] /\ \A j \in Fallbacks : fallback_exists[j] => i <= j>>
    ELSE <<>>

\* C20: a scan walks exactly the first existing root and yields no file
\* lying under any other root.
C20_ScansOneRoot ==
    call.fn = "iter_media_files" =>
        LET root == FirstExistingRoot(call.source_exists, call.fallback_exists)
        IN  /\ call.result.roots = root
            /\ \A i \in DOMAIN call.result.entries :
                  root # <<>> /\ call.result.entries[i] = root[1]

\* Two suffixes are the same but for the case of their letters.
SameButCase(a, b) ==
    \/ a = b
    \/ {a, b} \subseteq {".mkv", ".MKV"}
    \/ {a, b} \subseteq {".mp4", ".Mp4"}

\* C21: a path under the scanned root is yielded exactly when it is a
\* regular file (still there when it is measured), its suffix is one of the
\* configured extensions but for case, its size is at least the minimum and
\* its duration is unknown or at least the minimum.
C21_ScanFilter ==
    call.fn = "scan_path" =>
        (call.result <=>
            /\ call.path.is_file /\ ~call.path.gone
            /\ \E ext \in call.configured : SameButCase(ext, call.path.suffix)
            /\ call.path.size >= 104857600
            /\ (call.path.duration = -1 \/ call.path.duration >= 900))

\* An upper-case suffix, the smallest size and an unknown duration.
C21_Witness ==
    /\ call.fn = "scan_path"
    /\ call.path.suffix = ".MKV"
    /\ call.configured = {".mkv"}
    /\ call.path.size = MIN_SIZE_BYTES
    /\ call.path.duration = -1
    /\ call.result

\* The step made a link of kind k for file f.
Made(k, f) == \E n \in Names, i \in Slots : fs'[n][i] = Link(k, f) /\ fs[n][i] # Link(k, f)

\* C22: the junction is attempted only after the symbolic link was
\* attempted and failed; a link made by either mechanism is reported as
\* success; when both mechanisms failed the call returns failure, nothing
\* is raised and the pass goes on with the enumeration.
C22_FallbackAfterSymlink ==
    [][(pc = "file" /\ "link" \in last'.io) =>
          /\ "junction" \in last'.io => ("symlink" \in last'.io /\ ~Made("symlink", cur))
          /\ (Made("symlink", cur) \/ Made("junction", cur)) => last'.outcome = "linked"
          /\ ({"symlink", "junction"} \subseteq last'.io /\ fs' = fs) =>
                (last'.outcome = "linkfail" /\ pc' = "scan" /\ todo' = todo)]_vars

\* Both mechanisms failed for the first file and the enumeration has gone
\* on: the second file is still to come.
C22_Witness ==
    /\ pc = "scan"
    /\ last.outcome = "linkfail"
    /\ {"symlink", "junction"} \subseteq last.io
    /\ todo # {}

\* C23: the remote provider is asked only after the local cache, and only
\* when the local cache gave no candidate scoring above 70; when it gave
\* one, the remote provider is not asked.
C23_RemoteOnlyAfterLocalMiss ==
    call.fn = "decide" =>
        LET q == call.result.queries
            asked == \E i \in DOMAIN q : q[i] = "remote"
        IN  /\ asked => (\E i, j \in DOMAIN q : i < j /\ q[i] = "local" /\ q[j] = "remote")
            /\ asked => ~(call.answer.imdb > 70)
            /\ call.answer.imdb > 70 => ~asked
            /\ ~asked => call.result.best = "imdb"

\* The local cache answered with a score of 69 and the remote provider was
\* asked after it.
C23_Witness ==
    /\ call.fn = "decide"
    /\ call.answer.imdb = 69
    /\ call.result.queries = <<"local", "remote">>
    /\ call.result.best = "movie"

\* What the HTTP request comes to when the answer is empty, is no JSON, is
\* JSON of the wrong shape, or does not come in time.
SoftFailures == {"empty", "bad_json", "non_dict", "timeout"}

\* C24: a call whose request ends in an empty, malformed or late answer
\* returns no opinion and leaves enrichment enabled, and the call that
\* follows it attempts enrichment again.
C24_SoftFailureKeepsEnrichment ==
    [][/\ (call'.fn = "ai_parse_filename" /\ "http" \in call'.io /\ call'.post \in SoftFailures) =>
             (call'.result = "none" /\ ai'.use /\ ai'.reason = "none")
       /\ (call.fn = "ai_parse_filename" /\ "http" \in call.io /\ call.post \in SoftFailures) =>
             "probe" \in call'.io]_vars

\* A call got an answer that is no JSON; enrichment is still enabled.
C24_Witness ==
    /\ call.fn = "ai_parse_filename"
    /\ call.post = "bad_json"
    /\ "http" \in call.io
    /\ call.result = "none"
    /\ ai.use

\* C25: a value the analyzer extracted from the file name for the year,
\* the season or the episode, the value 0 included, is the value
\* clean_filename returns; a field the analyzer left unset takes the hint,
\* if there is one.
C25_HintsFillOnlyUnset ==
    call.fn = "clean_filename" =>
        LET year0 == extract_year(call.name)
            se == extract_season_episode(call.name)
            hint == call.ai_data
            r == call.result
        IN  /\ r.year = (IF year0 # 0 THEN year0 ELSE hint.year)
            /\ r.season = (IF se.season # -1 THEN se.season ELSE IF hint.season # 0 THEN hint.season ELSE -1)
            /\ r.episode = (IF se.episode # -1 THEN se.episode ELSE IF hint.episode # 0 THEN hint.episode ELSE -1)

\* What the patterns give when the first of them that matches decides both
\* values: SxxEyy, NxM, the S## and E## tokens, the "season N" and
\* "episode N" words.
FirstPatternWins(name) ==
    LET sxe == FirstIn(name, SxxEyyTokens)
        rng == FirstIn(name, RangeTokens)
        sea == FirstIn(name, SeasonTokens)
        epi == FirstIn(name, EpisodeTokens)
        seaw == FirstIn(name, SeasonWordTokens)
        epiw == FirstIn(name, EpisodeWordTokens)
    IN  IF sxe # "" THEN [season |-> SeasonOf(sxe), episode |-> EpisodeOf(sxe)]
        ELSE IF rng # "" THEN [season |-> SeasonOf(rng), episode |-> EpisodeOf(rng)]
        ELSE IF sea # "" \/ epi # "" THEN [season |-> SeasonOf(sea), episode |-> EpisodeOf(epi)]
        ELSE [season |-> SeasonOf(seaw), episode |-> EpisodeOf(epiw)]

\* C26: the season and the episode are both those of the first pattern, in
\* the order SxxEyy, NxM, S## / E## tokens, spelled-out words, that matches
\* the name.
C26_FirstPatternDecidesBoth ==
    call.fn = "extract_season_episode" => call.result = FirstPatternWins(call.name)

\* C27: a candidate whose media type is neither show nor anime has no
\* season and no episode.
C27_EpisodicFieldsOnlyForShows ==
    (call.fn = "make_candidate" /\ call.result.built) =>
        (call.result.media_type \notin {"show", "anime"} =>
            (call.result.season = -1 /\ call.result.episode = -1))

\* C28: a link is attempted for a file only when the chosen candidate
\* scores at least 80 and, if it is a remote result scoring below 90, its
\* year matches the year of the file name.
C28_LinkOnlyForAcceptedVerdict ==
    (last.file \in Files /\ "link" \in last.io) =>
        LET a == answer[last.file]
            d == Decide(a)
            year_match == IF d.best = "movie" THEN a.movie.year
                          ELSE IF d.best = "show" THEN a.show.year ELSE TRUE
        IN  /\ d.sim.score >= 80
            /\ d.sim.score < 90 => year_match

\* C29: handling a file in a dry-run pass creates no link and leaves the
\* state entry of a file it matched as it was, so that the file is not
\* taken as seen by the pass that follows.
C29_DryRunLeavesNoTrace ==
    [][(pc = "file" /\ dryRun) =>
          /\ fs' = fs
          /\ last'.outcome = "dryrun" => state'[cur] = state[cur]]_vars

\* The places of the destination tree that hold a link to file f.
LinksOf(f) == {p \in Names \X Slots : fs[p[1]][p[2]] \in LinkOf(f)}

\* C30: at every moment each source file has at most one link in the
\* destination tree.
C30_AtMostOneLinkPerSource ==
    \A f \in Files : Cardinality(LinksOf(f)) <= 1

====
